---- MODULE Spec2Model ----
(***************************************************************************)
(* A model of android-wakelock (src/src/lib.rs): the Builder, the WakeLock *)
(* handle, the acquisition Guard and the catch_exceptions helper, together *)
(* with the two collaborators the crate drives: the reference-counted      *)
(* android.os.PowerManager.WakeLock object and the per-thread attachment   *)
(* of native threads to the Java VM (jni::JavaVM / jni::AttachGuard).      *)
(***************************************************************************)
EXTENDS Integers, FiniteSets, Sequences, TLC

\* ------------------------------------------------------------------ bounds
MaxThreads == 2
MaxGuards == 2

Threads == 1..MaxThreads
GuardIds == 1..MaxGuards

VARIABLES
    handle,     \* "none" | "live" | "dropped": the WakeLock value returned by build()
    osCount,    \* reference count kept by the foreign WakeLock object
    attached,   \* [Threads -> BOOLEAN]: thread is attached to the Java VM
    pending,    \* [Threads -> BOOLEAN]: thread has a pending Java exception
    thr,        \* [Threads -> "running" | "unwinding" | "dead"]
    aborted,    \* the process has aborted (panic while unwinding, or a crash)
    guards,     \* [GuardIds -> guard record]
    nextGuard,  \* id given to the next Guard that acquire() constructs
    faulted,    \* some jni or foreign call so far failed for a reason outside this crate
    lastCatch,  \* CatchSpec: the most recent run of catch_exceptions, inputs and result
    lastCall,   \* CallSpec: the most recent call of build(), is_held() or acquire():
                \* the thread, what it returned, and the state it was made in
    builder,    \* the Builder value: tag, level, acquire_causes_wakeup, on_after_release
    lastBuild,  \* BuildSpec: the most recent run of build(), inputs and result
    lastFlags   \* BuilderSpec: the flags word build() last passed to newWakeLock,
                \* with the builder fields it was computed from

vars == <<handle, osCount, attached, pending, thr, aborted, guards, nextGuard,
          faulted, lastCatch, lastCall, builder, lastBuild, lastFlags>>

\* ------------------------------------------------------------ result values
\* Result<T>: Ok(value) or Err(description of the boxed error).
Ok(v) == [kind |-> "Ok", val |-> v]
Err(d) == [kind |-> "Err", val |-> d]

\* Display text of jni::errors::Error::JavaException, the "lower-level
\* description" an exception falls back to.
JavaExceptionDesc == "Java exception was thrown"

\* Outcomes of the closure f(env) handed to catch_exceptions:
\*   Ok(value) | Err(JavaException), the thrown object's message in val |
\*   Err(other jni error), its description in val.
CallOk(v) == [kind |-> "Ok", val |-> v]
CallThrew(m) == [kind |-> "JavaException", val |-> m]
CallJniErr(d) == [kind |-> "JniError", val |-> d]

JniErrors == {"MethodNotFound"}

\* How the steps catch_exceptions takes after a JavaException can go:
\*   occ: exception_occurred() returned Ok
\*   clr: exception_clear() cleared the pending exception
\*   msg: "Msg"    getMessage() and get_string() gave the message text
\*        "Null"   getMessage() returned null, or a jni error: no text
\*        "Throws" getMessage() itself threw: a new exception is pending
MsgOutcomes == {"Msg", "Null", "Throws"}
NominalHandling == [occ |-> TRUE, clr |-> TRUE, msg |-> "Msg"]
\* (after a failed exception_occurred() nothing else is tried, and with the
\* exception still pending getMessage() cannot run: msg is "Null" there)
Handlings ==
    {h \in [occ : BOOLEAN, clr : BOOLEAN, msg : MsgOutcomes] :
        /\ ~h.occ => ~h.clr
        /\ ~h.clr => h.msg = "Null"}

\* ---------------------------------------------------------- catch_exceptions
\* Faulty variant: the fallback branch loses the failure and reports success.
catch_exceptions_LosesFailure(call, h) ==
    IF call.kind = "Ok" THEN [res |-> Ok(call.val), pend |-> FALSE]
    ELSE IF call.kind = "JavaException" THEN
        IF h.occ /\ h.clr /\ h.msg = "Msg"
        THEN [res |-> Err(call.val), pend |-> FALSE]
        ELSE [res |-> Ok("unit"), pend |-> ~h.occ \/ ~h.clr \/ h.msg = "Throws"]
    ELSE [res |-> Err(call.val), pend |-> FALSE]

\* catch_exceptions(env, f): res is the Result returned, pend whether a Java
\* exception is still pending on the thread when the helper returns.
catch_exceptions(call, h) ==
    IF call.kind = "Ok" THEN [res |-> Ok(call.val), pend |-> FALSE]
    ELSE IF call.kind = "JavaException" THEN
        IF h.occ
        THEN \* let _ = env.exception_clear(); then getMessage / get_string.
             \* With the exception still pending every further call fails.
             IF h.clr /\ h.msg = "Msg"
             THEN [res |-> Err(call.val), pend |-> FALSE]
             ELSE [res |-> Err(JavaExceptionDesc),
                   pend |-> ~h.clr \/ h.msg = "Throws"]
        ELSE \* exception_occurred() failed: e.into(), nothing is cleared
             [res |-> Err(JavaExceptionDesc), pend |-> TRUE]
    ELSE [res |-> Err(call.val), pend |-> FALSE]

\* ------------------------------------------------------------- foreign side
\* The foreign object's own answer to a method call. On the WakeLock:
\* acquire() counts up, release() counts down and throws "WakeLock
\* under-locked" when nothing is held, isHeld() reports whether the count is
\* positive. getSystemService and newWakeLock return an object. d is the
\* change of the reference count.
Nominal(method) ==
    CASE method = "acquire" -> [call |-> CallOk("unit"), d |-> 1]
      [] method = "release" ->
            IF osCount > 0
            THEN [call |-> CallOk("unit"), d |-> -1]
            ELSE [call |-> CallThrew("WakeLock under-locked"), d |-> 0]
      [] method = "isHeld" ->
            [call |-> CallOk(IF osCount > 0 THEN "true" ELSE "false"), d |-> 0]
      [] OTHER -> [call |-> CallOk("obj"), d |-> 0]

\* Every way env.call_method(&self.wake_lock, method, ..) inside
\* catch_exceptions can go on thread t. With an exception already pending the
\* call fails with JavaException before the method runs. Otherwise the method
\* runs, or (a fault) it throws for another reason or jni reports an error.
\* valid = FALSE is a call through the JNIEnv of an attachment that has been
\* detached: a dangling reference, so any of the outcomes or a crash.
Outcomes(t, method, valid) ==
    LET base ==
            IF pending[t]
            THEN {[call |-> CallThrew("boom"), d |-> 0, fault |-> FALSE]}
            ELSE {[call |-> Nominal(method).call, d |-> Nominal(method).d,
                   fault |-> FALSE]}
                 \cup {[call |-> CallThrew("boom"), d |-> 0, fault |-> TRUE]}
                 \cup {[call |-> CallJniErr(e), d |-> 0, fault |-> TRUE]
                       : e \in JniErrors}
        hs(o) ==
            IF o.call.kind = "JavaException" THEN Handlings ELSE {NominalHandling}
    IN  {[call |-> o.call, h |-> h, d |-> o.d,
          fault |-> o.fault \/ h # NominalHandling, crash |-> FALSE]
            : <<o, h>> \in {p \in base \X Handlings : p[2] \in hs(p[1])}}
        \cup (IF valid THEN {}
              ELSE {[call |-> CallOk("unit"), h |-> NominalHandling, d |-> 0,
                     fault |-> FALSE, crash |-> TRUE]})

\* ----------------------------------------------------------------- threads
Live(g) == guards[g].st \in {"Held", "Consumed"}
GuardsOf(t) == {g \in GuardIds : Live(g) /\ guards[g].thread = t}

\* A thread runs one call at a time: inside release(), between release_one()
\* and the drop of self, it starts nothing else.
InRelease(t) == \E g \in GuardIds : guards[g].st = "Consumed" /\ guards[g].thread = t
CanRun(t) == ~aborted /\ thr[t] = "running" /\ ~InRelease(t)

\* JavaVM::attach_current_thread(): an attached thread gets a nested
\* AttachGuard, which detaches nothing when dropped; a thread that was not
\* attached is attached and its AttachGuard detaches it when dropped.
ShouldDetach(t) == ~attached[t]

\* Faulty variant: the AttachGuard of the call is leaked, the thread stays
\* attached after the call.
ScopedDetach_Leaks(t) == FALSE

\* let mut env = vm.attach_current_thread()?; ... with env a local of the
\* call: it is dropped on every return, and detaches the thread if it is the
\* guard that attached it.
ScopedDetach(t) == ShouldDetach(t)

\* attached after a call on thread t that attached and dropped its AttachGuard.
AfterScopedAttach(t) == [attached EXCEPT ![t] = ~ScopedDetach(t)]

\* ----------------------------------------------------------------- builder
Levels == {"Partial", "Full", "ScreenBright", "ScreenDim"}
Tags == {"app:tag", "gmail:mytag"}

\* WakeLock::builder(tag)
WakeLock_builder(tag) ==
    [tag |-> tag, level |-> "Partial",
     acquire_causes_wakeup |-> FALSE, on_after_release |-> FALSE]

\* Builder::level(mut self, level)
Builder_level(b, level) == [b EXCEPT !.level = level]

\* Faulty variant: the setter also clears on_after_release.
Builder_acquire_causes_wakeup_Clears(b, v) ==
    [b EXCEPT !.acquire_causes_wakeup = v, !.on_after_release = FALSE]

\* Builder::acquire_causes_wakeup(mut self, acquire_causes_wakeup)
Builder_acquire_causes_wakeup(b, v) == [b EXCEPT !.acquire_causes_wakeup = v]

\* Builder::on_after_release(mut self, on_after_release)
Builder_on_after_release(b, v) == [b EXCEPT !.on_after_release = v]

\* Level as i32
LevelCode(level) ==
    CASE level = "Partial" -> 1
      [] level = "Full" -> 26
      [] level = "ScreenBright" -> 10
      [] level = "ScreenDim" -> 6

ACQUIRE_CAUSES_WAKEUP == 268435456
ON_AFTER_RELEASE == 536870912

\* a | b on non-negative integers
RECURSIVE BitOr(_, _)
BitOr(a, b) ==
    IF a = 0 THEN b
    ELSE IF b = 0 THEN a
    ELSE (IF a % 2 = 1 \/ b % 2 = 1 THEN 1 ELSE 0) + 2 * BitOr(a \div 2, b \div 2)

\* Faulty variant: `=` in place of `|=`.
BuildFlags_Overwrites(b) ==
    LET f0 == LevelCode(b.level)
        f1 == IF b.acquire_causes_wakeup THEN ACQUIRE_CAUSES_WAKEUP ELSE f0
    IN  IF b.on_after_release THEN ON_AFTER_RELEASE ELSE f1

\* let mut flags = self.level as i32; flags |= .. for each option that is set
BuildFlags(b) ==
    LET f0 == LevelCode(b.level)
        f1 == IF b.acquire_causes_wakeup THEN BitOr(f0, ACQUIRE_CAUSES_WAKEUP) ELSE f0
    IN  IF b.on_after_release THEN BitOr(f1, ON_AFTER_RELEASE) ELSE f1

NoBuild == [thread |-> 0, failAt |-> "none", pendBefore |-> FALSE,
            c1 |-> Ok("none"), c2 |-> Ok("none"),
            steps |-> <<>>, res |-> Ok("none")]

NoFlags == [level |-> "Partial", acquire_causes_wakeup |-> FALSE,
            on_after_release |-> FALSE, flags |-> -1]

NoCatch == [method |-> "none", call |-> CallOk("none"), h |-> NominalHandling,
            res |-> Ok("none"), pend |-> FALSE]

NoGuard == [st |-> "Free", thread |-> 0, should_detach |-> FALSE, valid |-> TRUE,
            relCalls |-> 0, relRes |-> "none",
            dropRes |-> "none", ret |-> "none"]

NoCall == [op |-> "none", thread |-> 0, ret |-> "none",
           pre |-> [handle |-> "none", osCount |-> 0,
                    attached |-> [t \in Threads |-> FALSE],
                    guards |-> [g \in GuardIds |-> NoGuard], nextGuard |-> 1]]

\* The record of a call of op on thread t that returned ret, made in the
\* current state.
CallRecord(op, t, ret) ==
    [op |-> op, thread |-> t, ret |-> ret,
     pre |-> [handle |-> handle, osCount |-> osCount, attached |-> attached,
              guards |-> guards, nextGuard |-> nextGuard]]

Init ==
    /\ handle = "none"
    /\ osCount = 0
    /\ attached = [t \in Threads |-> FALSE]   \* native threads, not yet attached
    /\ pending = [t \in Threads |-> FALSE]
    /\ thr = [t \in Threads |-> "running"]
    /\ aborted = FALSE
    /\ guards = [g \in GuardIds |-> NoGuard]
    /\ nextGuard = 1
    /\ faulted = FALSE
    /\ lastCatch = NoCatch
    /\ lastCall = NoCall
    /\ builder = WakeLock_builder("app:tag")
    /\ lastBuild = NoBuild
    /\ lastFlags = NoFlags

\* ------------------------------------------------------------------ is_held
\* Faulty variant: is_held() calls a method that changes the count.
IsHeldMethod_Acquire == "acquire"

\* The foreign method is_held() calls: "isHeld", "()Z".
IsHeldMethod == "isHeld"

\* WakeLock::is_held(): attach for the call, ask isHeld through
\* catch_exceptions, drop the AttachGuard on return. rec: the call is recorded.
IsHeldCall(t, rec) ==
    /\ CanRun(t)
    /\ handle = "live"
    /\ \/ \* attach_current_thread()? fails
          /\ ~attached[t]
          /\ faulted' = TRUE
          /\ lastCall' = IF rec THEN CallRecord("is_held", t, "held_err") ELSE lastCall
          /\ UNCHANGED <<handle, osCount, attached, pending, thr, aborted,
                         guards, nextGuard, lastCatch, builder, lastBuild, lastFlags>>
       \/ \E o \in Outcomes(t, IsHeldMethod, TRUE) :
            LET c == catch_exceptions(o.call, o.h)
                ret == IF c.res.kind = "Ok" THEN c.res.val ELSE "held_err"
            IN
            /\ lastCatch' = lastCatch
            /\ lastCall' = IF rec THEN CallRecord("is_held", t, ret) ELSE lastCall
            /\ osCount' = osCount + o.d
            \* an AttachGuard that attached the thread detaches it again, and
            \* the detached thread keeps no pending exception
            /\ attached' = AfterScopedAttach(t)
            /\ pending' = [pending EXCEPT ![t] = AfterScopedAttach(t)[t] /\ c.pend]
            /\ faulted' = (faulted \/ o.fault)
            /\ UNCHANGED <<handle, thr, aborted, guards, nextGuard, builder, lastBuild, lastFlags>>

IsHeld(t) == IsHeldCall(t, FALSE)

\* ------------------------------------------------------------------ acquire
\* The Guard that acquire() constructs on thread t.
NewGuard(t) ==
    [st |-> "Held", thread |-> t, should_detach |-> ShouldDetach(t), valid |-> TRUE,
     relCalls |-> 0, relRes |-> "none",
     dropRes |-> "none", ret |-> "none"]

\* Faulty variant: the `?` after catch_exceptions is missing, a Guard is made
\* whatever the call returned.
AcquireMakesGuard_Always(res) == TRUE

\* catch_exceptions(..)?; ... Ok(Guard { .. }): only an Ok goes on to the Guard.
AcquireMakesGuard(res) == res.kind = "Ok"

\* WakeLock::acquire(): attach, call acquire through catch_exceptions, and on
\* success move the AttachGuard into the returned Guard; on an error the
\* AttachGuard is dropped with the call and `?` hands the Err to the caller.
\* rec: the call is recorded.
AcquireCall(t, rec) ==
    /\ CanRun(t)
    /\ handle = "live"
    /\ nextGuard <= MaxGuards
    /\ \/ \* attach_current_thread()? fails
          /\ ~attached[t]
          /\ faulted' = TRUE
          /\ lastCall' = IF rec THEN CallRecord("acquire", t, "acquire_err") ELSE lastCall
          /\ UNCHANGED <<handle, osCount, attached, pending, thr, aborted,
                         guards, nextGuard, lastCatch, builder, lastBuild, lastFlags>>
       \/ \E o \in Outcomes(t, "acquire", TRUE) :
            LET c == catch_exceptions(o.call, o.h)
                ret == IF c.res.kind = "Ok" THEN "acquire_ok" ELSE "acquire_err"
            IN
            /\ lastCatch' = lastCatch
            /\ lastCall' = IF rec THEN CallRecord("acquire", t, ret) ELSE lastCall
            /\ osCount' = osCount + o.d
            /\ faulted' = (faulted \/ o.fault)
            /\ IF AcquireMakesGuard(c.res)
               THEN /\ guards' = [guards EXCEPT ![nextGuard] = NewGuard(t)]
                    /\ nextGuard' = nextGuard + 1
                    /\ attached' = [attached EXCEPT ![t] = TRUE]
                    /\ pending' = [pending EXCEPT ![t] = c.pend]
               ELSE /\ attached' = AfterScopedAttach(t)
                    /\ pending' = [pending EXCEPT
                                     ![t] = AfterScopedAttach(t)[t] /\ c.pend]
                    /\ UNCHANGED <<guards, nextGuard>>
            /\ UNCHANGED <<handle, thr, aborted, builder, lastBuild, lastFlags>>

Acquire(t) == AcquireCall(t, FALSE)

\* ------------------------------------------------------------------ release
\* Faulty variant: Drop::drop discards the error of release_one().
DropPanics_Swallows(res) == FALSE

\* impl Drop for Guard: panic!() exactly when release_one() returned Err.
DropPanics(res) == res.kind = "Err"

\* Faulty variant: release_one() returns Ok(()) without calling the foreign method.
ReleaseOneCalls_Never(g) == FALSE

\* Guard::release_one(): no flag is consulted, the foreign release method is
\* called every time.
ReleaseOneCalls(g) == TRUE

\* The outcomes of one release_one() on guard g: the foreign call when it is
\* made, else an Ok(()) that touches nothing.
ReleaseOutcomes(t, g) ==
    IF ReleaseOneCalls(g)
    THEN Outcomes(t, "release", guards[g].valid)
    ELSE {[call |-> CallOk("skipped"), h |-> NominalHandling, d |-> 0,
           fault |-> FALSE, crash |-> FALSE]}

Called(o) == IF o.call = CallOk("skipped") THEN 0 ELSE 1

\* Guard::release(mut self), first part: self.release_one(). self is still
\* owned by release() and is dropped when release() returns (ReleaseReturn).
Release(t, g) ==
    /\ CanRun(t)
    /\ guards[g].st = "Held"
    /\ guards[g].thread = t
    /\ \E o \in ReleaseOutcomes(t, g) :
         IF o.crash
         THEN /\ aborted' = TRUE
              /\ UNCHANGED <<handle, osCount, attached, pending, thr, guards,
                             nextGuard, faulted, lastCatch, lastCall, builder, lastBuild, lastFlags>>
         ELSE LET c == catch_exceptions(o.call, o.h) IN
              /\ lastCatch' = lastCatch
              /\ osCount' = osCount + o.d
              /\ faulted' = (faulted \/ o.fault)
              /\ pending' = [pending EXCEPT ![t] = attached[t] /\ c.pend]
              /\ guards' = [guards EXCEPT ![g] =
                              [@ EXCEPT !.st = "Consumed",
                                        !.relCalls = @ + Called(o),
                                        !.relRes = c.res.kind]]
              /\ UNCHANGED <<handle, attached, thr, aborted, nextGuard, lastCall, builder, lastBuild, lastFlags>>

\* The drop of a Guard value on thread t: Drop::drop (release_one, panic on
\* Err), then the fields, of which env detaches the thread if it attached it.
\* A panic starts unwinding the thread, which drops the guards it still owns;
\* a panic while already unwinding aborts the process.
\* Only an attached thread holds a pending exception.
DropGlue(t, g) ==
    \E o \in ReleaseOutcomes(t, g) :
        IF o.crash
        THEN /\ aborted' = TRUE
             /\ UNCHANGED <<handle, osCount, attached, pending, thr, guards,
                            nextGuard, faulted, lastCatch, lastCall, builder, lastBuild, lastFlags>>
        ELSE LET c == catch_exceptions(o.call, o.h)
                 panics == DropPanics(c.res)
                 detach == guards[g].should_detach
                 rest == GuardsOf(t) \ {g}
             IN
             /\ lastCatch' = lastCatch
             /\ osCount' = osCount + o.d
             /\ faulted' = (faulted \/ o.fault)
             /\ IF panics /\ thr[t] = "unwinding"
                THEN /\ aborted' = TRUE
                     /\ pending' = [pending EXCEPT ![t] = attached[t] /\ c.pend]
                     /\ guards' = [guards EXCEPT ![g] =
                                     [@ EXCEPT !.st = "Destroyed",
                                               !.relCalls = @ + Called(o),
                                               !.dropRes = c.res.kind,
                                               !.ret = "Panic"]]
                     /\ UNCHANGED <<attached, thr>>
                ELSE /\ aborted' = aborted
                     /\ attached' = [attached EXCEPT ![t] = IF detach THEN FALSE ELSE @]
                     /\ pending' = [pending EXCEPT ![t] = IF detach THEN FALSE
                                                               ELSE attached[t] /\ c.pend]
                     /\ guards' = [x \in GuardIds |->
                          IF x = g
                          THEN [guards[g] EXCEPT
                                  !.st = "Destroyed",
                                  !.should_detach = FALSE,
                                  !.valid = TRUE,
                                  !.relCalls = @ + Called(o),
                                  !.dropRes = c.res.kind,
                                  !.ret = IF panics THEN "Panic" ELSE guards[g].relRes]
                          ELSE IF detach /\ x \in rest
                          THEN [guards[x] EXCEPT !.valid = FALSE]
                          ELSE guards[x]]
                     /\ thr' = [thr EXCEPT ![t] =
                                  IF panics \/ thr[t] = "unwinding"
                                  THEN (IF rest = {} THEN "dead" ELSE "unwinding")
                                  ELSE "running"]
             /\ UNCHANGED <<handle, nextGuard, lastCall, builder, lastBuild, lastFlags>>

\* Guard::release(mut self), second part: release() returns and self, which
\* it owns, goes out of scope.
ReleaseReturn(t, g) ==
    /\ ~aborted
    /\ thr[t] = "running"
    /\ guards[g].st = "Consumed"
    /\ guards[g].thread = t
    /\ DropGlue(t, g)

\* A Guard goes out of scope (or is passed to drop()) without release():
\* in any order while the thread runs, and for every guard the thread still
\* owns while it unwinds.
DropGuard(t, g) ==
    /\ ~aborted
    /\ thr[t] \in {"running", "unwinding"}
    /\ ~InRelease(t)
    /\ guards[g].st = "Held"
    /\ guards[g].thread = t
    /\ DropGlue(t, g)

\* -------------------------------------------------------------------- build
\* The fallible steps of Builder::build(), in program order: from_raw,
\* attach_current_thread, new_string("power"), getSystemService (through
\* catch_exceptions), new_string(tag), newWakeLock (through catch_exceptions),
\* result.l() and new_global_ref. Each is followed by `?`.
BuildOrder == <<"from_raw", "attach", "power_string", "getSystemService",
                "tag_string", "newWakeLock", "global_ref">>

\* The jni calls of build() outside catch_exceptions.
BuildJniSteps == {"from_raw", "attach", "power_string", "tag_string", "global_ref"}

\* Faulty variant: the `?` after the getSystemService call is missing.
StepOk_IgnoresService(t, step, failAt, c1, c2) ==
    CASE step = "power_string" -> failAt # step /\ ~pending[t]
      [] step = "getSystemService" -> TRUE
      [] step = "newWakeLock" -> c2.res.kind = "Ok"
      [] OTHER -> failAt # step

\* Whether a step of build() succeeds: a jni step unless it is the one that
\* fails (new_string("power") also fails while an exception is pending), a
\* wrapped call when catch_exceptions returned Ok.
StepOk(t, step, failAt, c1, c2) ==
    CASE step = "power_string" -> failAt # step /\ ~pending[t]
      [] step = "getSystemService" -> c1.res.kind = "Ok"
      [] step = "newWakeLock" -> c2.res.kind = "Ok"
      [] OTHER -> failAt # step

\* One run of build() on thread t: `?` returns at the first step that fails.
\*   steps   the steps executed, the failing one last
\*   failed  the step that failed, "none" when all succeeded
\*   res     Ok(WakeLock) or the error
\*   pend    whether the run left an exception pending on the thread
\*   att     whether the run attached (an AttachGuard was made and dropped)
BuildRun(t, failAt, o1, o2) ==
    LET c1 == catch_exceptions(o1.call, o1.h)
        c2 == catch_exceptions(o2.call, o2.h)
        bad == {i \in 1..Len(BuildOrder) : ~StepOk(t, BuildOrder[i], failAt, c1, c2)}
        last == IF bad = {} THEN Len(BuildOrder)
                ELSE CHOOSE i \in bad : \A k \in bad : i <= k
        ran(step) == \E i \in 1..last : BuildOrder[i] = step
        failed == IF bad = {} THEN "none" ELSE BuildOrder[last]
    IN  [steps |-> SubSeq(BuildOrder, 1, last),
         failed |-> failed,
         res |-> IF failed = "none" THEN Ok("WakeLock")
                 ELSE IF failed = "getSystemService" THEN c1.res
                 ELSE IF failed = "newWakeLock" THEN c2.res
                 ELSE Err(failed),
         pend |-> IF ran("newWakeLock") THEN c2.pend
                  ELSE IF ran("getSystemService") THEN c1.pend
                  ELSE pending[t],
         att |-> ran("power_string"),
         fault |-> \/ failAt # "none"
                   \/ (ran("getSystemService") /\ o1.fault)
                   \/ (ran("newWakeLock") /\ o2.fault)]

\* The argument standing for a wrapped call that a run never reaches.
NotCalled == [call |-> CallOk("none"), h |-> NominalHandling, d |-> 0,
              fault |-> FALSE, crash |-> FALSE]

Ran(run, step) == \E i \in 1..Len(run.steps) : run.steps[i] = step

\* The ways one run of build() on thread t can go: which jni step fails, if
\* any, and the outcome of each wrapped call the run reaches. The step named
\* by failAt is the one the run ends at.
BuildRuns(t) ==
    LET F == {f \in BuildJniSteps \cup {"none"} : f = "attach" => ~attached[t]}
        O1(f) == IF Ran(BuildRun(t, f, NotCalled, NotCalled), "getSystemService")
                 THEN Outcomes(t, "getSystemService", TRUE) ELSE {NotCalled}
        O2(f, o1) == IF Ran(BuildRun(t, f, o1, NotCalled), "newWakeLock")
                     THEN Outcomes(t, "newWakeLock", TRUE) ELSE {NotCalled}
        all == UNION {UNION {{[failAt |-> f, o1 |-> o1, o2 |-> o2,
                               run |-> BuildRun(t, f, o1, o2)] : o2 \in O2(f, o1)}
                             : o1 \in O1(f)} : f \in F}
    IN  {r \in all : r.failAt # "none" => r.run.failed = r.failAt}

\* The builder fields a run of build() reads and the flags word it computes
\* from them.
FlagsRecord(b) ==
    [level |-> b.level, acquire_causes_wakeup |-> b.acquire_causes_wakeup,
     on_after_release |-> b.on_after_release, flags |-> BuildFlags(b)]

\* What is recorded of a run of build(): the step made to fail, whether an
\* exception was pending, what the wrapped calls returned, the steps executed
\* and the result.
BuildRecord(t, r) ==
    [thread |-> t, failAt |-> r.failAt, pendBefore |-> pending[t],
     c1 |-> catch_exceptions(r.o1.call, r.o1.h).res,
     c2 |-> catch_exceptions(r.o2.call, r.o2.h).res,
     steps |-> r.run.steps, res |-> r.run.res]

\* Builder::build(&self) on thread t: the AttachGuard is dropped on every
\* return after the attach, and Ok(WakeLock) gives the caller its handle (the
\* model follows the first one built). rec names what is recorded of the
\* call: "none", the "run", the "flags" or the "call".
BuildCall(t, rec) ==
    /\ CanRun(t)
    /\ \E r \in BuildRuns(t) :
        /\ attached' = IF r.run.att THEN AfterScopedAttach(t) ELSE attached
        /\ pending' = [pending EXCEPT
                         ![t] = IF r.run.att THEN AfterScopedAttach(t)[t] /\ r.run.pend
                                ELSE @]
        /\ faulted' = (faulted \/ r.run.fault)
        /\ handle' = IF r.run.res.kind = "Ok" /\ handle = "none" THEN "live" ELSE handle
        /\ lastBuild' = IF rec = "run" THEN BuildRecord(t, r) ELSE lastBuild
        /\ lastFlags' = IF rec = "flags" /\ Ran(r.run, "newWakeLock")
                        THEN FlagsRecord(builder) ELSE lastFlags
        /\ lastCall' = IF rec = "call"
                       THEN CallRecord("build", t, IF r.run.res.kind = "Ok"
                                                   THEN "build_ok" ELSE "build_err")
                       ELSE lastCall
        /\ UNCHANGED <<osCount, thr, aborted, guards, nextGuard, lastCatch, builder>>

Build(t) == BuildCall(t, "none")

\* --------------------------------------------------------------- handle drop
\* Faulty variant: dropping the handle releases the wake lock.
HandleDropReleases_Yes == TRUE

\* WakeLock has no Drop impl: its fields are dropped, nothing is called on
\* the foreign wake lock.
HandleDropReleases == FALSE

\* The WakeLock value is dropped. Guards borrow it (tag: &'a str and
\* AttachGuard<'a>), so no guard is alive then.
DropHandle(t) ==
    /\ CanRun(t)
    /\ handle = "live"
    /\ \A g \in GuardIds : ~Live(g)
    /\ handle' = "dropped"
    /\ osCount' = IF HandleDropReleases /\ osCount > 0 THEN osCount - 1 ELSE osCount
    /\ UNCHANGED <<attached, pending, thr, aborted, guards, nextGuard, faulted,
                   lastCatch, lastCall, builder, lastBuild, lastFlags>>

\* -------------------------------------------------------------------- system
Next ==
    \/ \E t \in Threads : Build(t)
    \/ \E t \in Threads : IsHeld(t)
    \/ \E t \in Threads : Acquire(t)
    \/ \E t \in Threads, g \in GuardIds : Release(t, g)
    \/ \E t \in Threads, g \in GuardIds : ReleaseReturn(t, g)
    \/ \E t \in Threads, g \in GuardIds : DropGuard(t, g)
    \/ \E t \in Threads : DropHandle(t)

Spec == Init /\ [][Next]_vars

\* ------------------------------------------- catch_exceptions on its own
\* The helper applied to every foreign call the crate wraps, on threads that
\* stay attached, recording each run: its inputs (the closure's outcome and
\* how the exception handling went) and what it returned and left pending.
Methods == {"getSystemService", "newWakeLock", "isHeld", "acquire", "release"}

CatchRecord(method, o) ==
    [method |-> method, call |-> o.call, h |-> o.h,
     res |-> catch_exceptions(o.call, o.h).res,
     pend |-> catch_exceptions(o.call, o.h).pend]

CatchInit ==
    /\ handle = "live"
    /\ osCount = 0
    /\ attached = [t \in Threads |-> TRUE]
    /\ pending = [t \in Threads |-> FALSE]
    /\ thr = [t \in Threads |-> "running"]
    /\ aborted = FALSE
    /\ guards = [g \in GuardIds |-> NoGuard]
    /\ nextGuard = 1
    /\ faulted = FALSE
    /\ lastCatch = NoCatch
    /\ lastCall = NoCall
    /\ builder = WakeLock_builder("app:tag")
    /\ lastBuild = NoBuild
    /\ lastFlags = NoFlags

\* catch_exceptions(&mut env, |env| env.call_method(.., method, ..)) on thread t.
CatchCall(t, method) ==
    /\ method = "acquire" => osCount < MaxGuards
    /\ \E o \in Outcomes(t, method, TRUE) :
        /\ lastCatch' = CatchRecord(method, o)
        /\ osCount' = osCount + o.d
        /\ pending' = [pending EXCEPT ![t] = CatchRecord(method, o).pend]
        /\ faulted' = (faulted \/ o.fault)
        /\ UNCHANGED <<handle, attached, thr, aborted, guards, nextGuard, lastCall, builder, lastBuild, lastFlags>>

CatchNext == \E t \in Threads, method \in Methods : CatchCall(t, method)

CatchSpec == CatchInit /\ [][CatchNext]_vars

\* ------------------------------------------------------ the calls on their own
\* build(), is_held() and acquire() called by native threads and by threads
\* of the Java VM, each call recorded with the state it was made in.
CallInit ==
    /\ handle = "none"
    /\ osCount = 0
    /\ attached \in [Threads -> BOOLEAN]
    /\ pending = [t \in Threads |-> FALSE]
    /\ thr = [t \in Threads |-> "running"]
    /\ aborted = FALSE
    /\ guards = [g \in GuardIds |-> NoGuard]
    /\ nextGuard = 1
    /\ faulted = FALSE
    /\ lastCatch = NoCatch
    /\ lastCall = NoCall
    /\ builder = WakeLock_builder("app:tag")
    /\ lastBuild = NoBuild
    /\ lastFlags = NoFlags

BuildRec(t) == BuildCall(t, "call")
IsHeldRec(t) == IsHeldCall(t, TRUE)
AcquireRec(t) == AcquireCall(t, TRUE)

CallNext ==
    \/ \E t \in Threads : BuildRec(t)
    \/ \E t \in Threads : IsHeldRec(t)
    \/ \E t \in Threads : AcquireRec(t)

CallSpec == CallInit /\ [][CallNext]_vars

\* --------------------------------------------------------- build on its own
\* Runs of build() on the same threads, each run recorded step by step.
BuildRun_Rec(t) == BuildCall(t, "run")

BuildNext == \E t \in Threads : BuildRun_Rec(t)

BuildSpec == CallInit /\ [][BuildNext]_vars

\* ------------------------------------------------------- the builder value
\* The builder is made and configured, and build() is called with it,
\* recording the flags word each run passes to newWakeLock.
NewBuilder(tag) ==
    /\ builder' = WakeLock_builder(tag)
    /\ UNCHANGED <<handle, osCount, attached, pending, thr, aborted, guards,
                   nextGuard, faulted, lastCatch, lastCall, lastBuild, lastFlags>>

SetLevel(level) ==
    /\ builder' = Builder_level(builder, level)
    /\ UNCHANGED <<handle, osCount, attached, pending, thr, aborted, guards,
                   nextGuard, faulted, lastCatch, lastCall, lastBuild, lastFlags>>

SetAcquireCausesWakeup(v) ==
    /\ builder' = Builder_acquire_causes_wakeup(builder, v)
    /\ UNCHANGED <<handle, osCount, attached, pending, thr, aborted, guards,
                   nextGuard, faulted, lastCatch, lastCall, lastBuild, lastFlags>>

SetOnAfterRelease(v) ==
    /\ builder' = Builder_on_after_release(builder, v)
    /\ UNCHANGED <<handle, osCount, attached, pending, thr, aborted, guards,
                   nextGuard, faulted, lastCatch, lastCall, lastBuild, lastFlags>>

BuildWithFlags(t) == BuildCall(t, "flags")

BuilderNext ==
    \/ \E tag \in Tags : NewBuilder(tag)
    \/ \E level \in Levels : SetLevel(level)
    \/ \E v \in BOOLEAN : SetAcquireCausesWakeup(v)
    \/ \E v \in BOOLEAN : SetOnAfterRelease(v)
    \/ \E t \in Threads : BuildWithFlags(t)

BuilderSpec == Init /\ [][BuilderNext]_vars

\* ------------------------------------------------------------------ typing
TypeOK ==
    /\ handle \in {"none", "live", "dropped"}
    /\ osCount \in 0..MaxGuards
    /\ attached \in [Threads -> BOOLEAN]
    /\ pending \in [Threads -> BOOLEAN]
    /\ thr \in [Threads -> {"running", "unwinding", "dead"}]
    /\ aborted \in BOOLEAN
    /\ nextGuard \in 1..(MaxGuards + 1)
    /\ faulted \in BOOLEAN
    /\ \A g \in GuardIds : guards[g].st \in {"Free", "Held", "Consumed", "Destroyed"}
    /\ \A t \in Threads : pending[t] => attached[t]
    /\ builder.tag \in Tags /\ builder.level \in Levels

\* ------------------------------------------------------------------ claims
Created(g) == guards[g].st # "Free"
Explicit(g) == guards[g].relRes # "none"
Destroyed(g) == guards[g].st = "Destroyed"
Held(g) == guards[g].st = "Held"
\* The result of the first release call made for g.
FirstRelease(g) == IF Explicit(g) THEN guards[g].relRes ELSE guards[g].dropRes

\* C1: for every guard, the foreign release method is called at most once
\* over the guard's whole life, whether it ends by release() or by drop.
C1_AtMostOneRelease == \A g \in GuardIds : guards[g].relCalls <= 1

\* C2: as long as no call has failed for an outside reason, the reference
\* count of the foreign wake lock equals the number of guards that are Held
\* (so the wake lock stays held while any guard is Held).
C2_CountEqualsHeld ==
    ~faulted => osCount = Cardinality({g \in GuardIds : Held(g)})

\* C3: two guards acquired by two threads are independent: with no outside
\* failure, the first release call of either one succeeds, whatever has been
\* done with the other (it is never rejected as an over-release).
C3_IndependentGuards ==
    \A g, k \in GuardIds :
        (/\ Created(g) /\ Created(k)
         /\ guards[g].thread # guards[k].thread
         /\ ~faulted)
        => FirstRelease(g) \in {"none", "Ok"}

\* C4: on a handle with a single guard, an explicit release() whose foreign
\* release call succeeded returns Ok to the caller without a panic, and the
\* reference count is back to zero.
C4_SoleReleaseSucceeds ==
    (/\ nextGuard = 2
     /\ Destroyed(1)
     /\ guards[1].relRes = "Ok")
    => (guards[1].ret = "Ok" /\ osCount = 0 /\ thr[guards[1].thread] = "running")

\* C5: an explicit release() whose foreign release call failed returns that
\* error to the caller; it does not panic.
C5_ReleaseErrorReturned ==
    \A g \in GuardIds :
        (Destroyed(g) /\ guards[g].relRes = "Err")
        => (guards[g].ret = "Err" /\ thr[guards[g].thread] = "running")

\* C6: whenever the release call made by the drop of a guard fails, the
\* thread panics (it unwinds or dies, or the process aborts): the failure is
\* never discarded with the thread running on.
C6_DropFailurePanics ==
    \A g \in GuardIds :
        guards[g].dropRes = "Err"
        => /\ guards[g].ret = "Panic"
           /\ (aborted \/ thr[guards[g].thread] # "running")

C6_Witness ==
    \E g \in GuardIds :
        /\ ~Explicit(g)
        /\ Destroyed(g)
        /\ guards[g].dropRes = "Err"
        /\ guards[g].ret = "Panic"
        /\ ~aborted

\* C7: release is never skipped and never undone: a guard that has left Held
\* (inside release(), or destroyed on any path) has had the foreign release
\* call made for it, and a guard that is Held has had none, so no guard goes
\* back to Held.
C7_ReleaseNeverSkipped ==
    \A g \in GuardIds :
        /\ guards[g].st \in {"Consumed", "Destroyed"} => guards[g].relCalls >= 1
        /\ guards[g].st \in {"Free", "Held"} => guards[g].relCalls = 0

C7_Witness ==
    \E g, k \in GuardIds :
        /\ Destroyed(g) /\ Explicit(g)
        /\ Destroyed(k) /\ ~Explicit(k) /\ guards[k].relCalls = 1

\* C8: while a guard is Held, the thread that created it is attached to the
\* Java VM.
C8_AttachedWhileHeld ==
    \A g \in GuardIds : Held(g) => attached[guards[g].thread]

\* C9: when the wrapped call signalled a thrown exception, no exception is
\* pending on the thread once catch_exceptions has returned.
C9_PendingCleared ==
    lastCatch.call.kind = "JavaException" => ~lastCatch.pend

\* C10: catch_exceptions returns Ok(v) for Ok(v), the same error for a jni
\* error, Err(m) for an exception whose message m was extracted, and the
\* error of JavaException itself when the message could not be extracted.
C10_Mapping ==
    LET c == lastCatch
        extracted == c.h.occ /\ c.h.clr /\ c.h.msg = "Msg"
    IN  /\ c.call.kind = "Ok" => c.res = [kind |-> "Ok", val |-> c.call.val]
        /\ c.call.kind = "JniError" => c.res = [kind |-> "Err", val |-> c.call.val]
        /\ (c.call.kind = "JavaException" /\ extracted)
            => c.res = [kind |-> "Err", val |-> c.call.val]
        /\ (c.call.kind = "JavaException" /\ ~extracted)
            => c.res = [kind |-> "Err", val |-> "Java exception was thrown"]

C10_Witness ==
    /\ lastCatch.call.kind = "JavaException"
    /\ lastCatch.h.occ /\ lastCatch.h.clr /\ lastCatch.h.msg = "Null"
    /\ lastCatch.res = [kind |-> "Err", val |-> "Java exception was thrown"]

\* C11: build() is all-or-nothing: a step that fails is the last step
\* executed and its error is what build() returns; build() returns a handle
\* exactly when all seven steps were executed and none of them failed, and
\* without that no handle exists.
C11_AllOrNothing ==
    LET b == lastBuild
        n == Len(b.steps)
        stepFailed(i) ==
            \/ b.steps[i] = b.failAt
            \/ b.steps[i] = "power_string" /\ b.pendBefore
            \/ b.steps[i] = "getSystemService" /\ b.c1.kind = "Err"
            \/ b.steps[i] = "newWakeLock" /\ b.c2.kind = "Err"
        stepError(i) ==
            CASE b.steps[i] = "getSystemService" -> b.c1
              [] b.steps[i] = "newWakeLock" -> b.c2
              [] OTHER -> [kind |-> "Err", val |-> b.steps[i]]
    IN  b.thread # 0 =>
            /\ b.steps = SubSeq(<<"from_raw", "attach", "power_string",
                                  "getSystemService", "tag_string", "newWakeLock",
                                  "global_ref">>, 1, n)
            /\ \A i \in 1..n : stepFailed(i) => (i = n /\ b.res = stepError(i))
            /\ b.res.kind = "Ok" <=> (n = 7 /\ \A i \in 1..n : ~stepFailed(i))
            /\ b.res.kind = "Ok" => handle = "live"
            /\ handle = "none" => b.res.kind = "Err"

C11_Witness ==
    /\ lastBuild.thread # 0
    /\ Len(lastBuild.steps) = 6
    /\ lastBuild.c1.kind = "Ok"
    /\ lastBuild.c2.kind = "Err"
    /\ lastBuild.res = lastBuild.c2
    /\ handle = "none"

\* C12: the flags word passed to newWakeLock is the level code (Partial 1,
\* Full 26, ScreenDim 6, ScreenBright 10) plus 2^28 if acquire_causes_wakeup
\* and plus 2^29 if on_after_release: the bits below 2^28 are the level code,
\* bit 28 is set exactly for acquire_causes_wakeup, bit 29 exactly for
\* on_after_release; with both options false it is the level code.
C12_FlagsWord ==
    LET f == lastFlags
        code == CASE f.level = "Partial" -> 1
                  [] f.level = "Full" -> 26
                  [] f.level = "ScreenDim" -> 6
                  [] f.level = "ScreenBright" -> 10
    IN  f.flags # -1 =>
            /\ f.flags = code + (IF f.acquire_causes_wakeup THEN 268435456 ELSE 0)
                              + (IF f.on_after_release THEN 536870912 ELSE 0)
            /\ f.flags % 268435456 = code
            /\ (f.flags \div 268435456) % 2 = 1 <=> f.acquire_causes_wakeup
            /\ (f.flags \div 536870912) % 2 = 1 <=> f.on_after_release
            /\ (~f.acquire_causes_wakeup /\ ~f.on_after_release) => f.flags = code

C12_Witness ==
    /\ lastFlags.level = "Full"
    /\ lastFlags.acquire_causes_wakeup
    /\ lastFlags.on_after_release
    /\ lastFlags.flags = 805306394

\* C13: is_held() is read-only and idempotent: a call changes neither the
\* reference count, nor any guard, nor the handle; a call that answers, answers
\* whether the count is positive, and with no outside failure every call
\* answers. The answer depends on the count alone and no call of is_held()
\* changes the count, so repeated calls give the same answer.
C13_IsHeldReadOnly ==
    lastCall.op = "is_held" =>
        /\ osCount = lastCall.pre.osCount
        /\ guards = lastCall.pre.guards
        /\ nextGuard = lastCall.pre.nextGuard
        /\ handle = lastCall.pre.handle
        /\ lastCall.ret = "true" => osCount > 0
        /\ lastCall.ret = "false" => osCount = 0
        /\ ~faulted => lastCall.ret \in {"true", "false"}

C13_Witness ==
    /\ lastCall.op = "is_held"
    /\ lastCall.ret = "true"
    /\ osCount > 0
    /\ \E g \in GuardIds : Held(g)
    /\ ~faulted

\* C14: a thread that was not attached before a call of build() or is_held()
\* is not attached after the call, whether the call succeeded or failed.
C14_ScopedAttachment ==
    (/\ lastCall.op \in {"build", "is_held"}
     /\ ~lastCall.pre.attached[lastCall.thread])
    => ~attached[lastCall.thread]

C14_Witness ==
    /\ lastCall.op = "is_held"
    /\ lastCall.ret = "false"
    /\ ~lastCall.pre.attached[lastCall.thread]
    /\ ~attached[lastCall.thread]
    /\ handle = "live"

\* C15: a call of acquire() that fails returns the error, constructs no
\* guard, leaves the reference count and every guard as they were, and leaves
\* the thread attached exactly if it was attached before the call.
C15_FailedAcquire ==
    (lastCall.op = "acquire" /\ lastCall.ret = "acquire_err") =>
        /\ osCount = lastCall.pre.osCount
        /\ guards = lastCall.pre.guards
        /\ nextGuard = lastCall.pre.nextGuard
        /\ attached[lastCall.thread] = lastCall.pre.attached[lastCall.thread]

C15_Witness ==
    /\ lastCall.op = "acquire"
    /\ lastCall.ret = "acquire_err"
    /\ ~lastCall.pre.attached[lastCall.thread]
    /\ ~attached[lastCall.thread]
    /\ \E g \in GuardIds : Held(g)
    /\ osCount = Cardinality({g \in GuardIds : Held(g)})

\* C16: the builder is a pure value: builder(tag) has the tag, level Partial
\* and both options false; each setter sets its own field and leaves the tag
\* and the other fields as they were; a step that changes the builder makes
\* no foreign call and leaves the attachment of every thread alone; build()
\* leaves the builder as it was.
C16_BuilderPureValue ==
    [][/\ \A tag \in Tags :
            NewBuilder(tag) =>
                builder' = [tag |-> tag, level |-> "Partial",
                            acquire_causes_wakeup |-> FALSE,
                            on_after_release |-> FALSE]
       /\ \A level \in Levels :
            SetLevel(level) =>
                /\ builder'.level = level
                /\ builder'.tag = builder.tag
                /\ builder'.acquire_causes_wakeup = builder.acquire_causes_wakeup
                /\ builder'.on_after_release = builder.on_after_release
       /\ \A v \in BOOLEAN :
            SetAcquireCausesWakeup(v) =>
                /\ builder'.acquire_causes_wakeup = v
                /\ builder'.tag = builder.tag
                /\ builder'.level = builder.level
                /\ builder'.on_after_release = builder.on_after_release
       /\ \A v \in BOOLEAN :
            SetOnAfterRelease(v) =>
                /\ builder'.on_after_release = v
                /\ builder'.tag = builder.tag
                /\ builder'.level = builder.level
                /\ builder'.acquire_causes_wakeup = builder.acquire_causes_wakeup
       /\ builder' # builder =>
            UNCHANGED <<handle, osCount, attached, pending, faulted, lastFlags>>
       /\ builder' = builder \/ ~(\E t \in Threads : BuildWithFlags(t))]_vars

C16_Witness ==
    /\ builder = [tag |-> "gmail:mytag", level |-> "ScreenDim",
                  acquire_causes_wakeup |-> FALSE, on_after_release |-> TRUE]
    /\ lastFlags.flags = 536870918
    /\ handle = "live"

\* C17: the drop of the handle changes neither the reference count nor any
\* guard, and the count only ever goes down in a step in which a guard makes
\* a foreign release call.
C17_HandleDropNoRelease ==
    [][/\ (\E t \in Threads : DropHandle(t)) =>
              (osCount' = osCount /\ guards' = guards)
       /\ osCount' < osCount =>
              \E g \in GuardIds : guards'[g].relCalls = guards[g].relCalls + 1]_vars

C17_Witness ==
    /\ handle = "dropped"
    /\ osCount > 0

====
